---- MODULE Spec2Model ----
(***************************************************************************)
(* Model of src/utils.py: the keyed connection pool (class Database over   *)
(* psycopg2's ThreadedConnectionPool) and the LISTEN/NOTIFY bridge (class  *)
(* Listener over an eventlet queue and greenthread).                       *)
(***************************************************************************)
EXTENDS Integers, Sequences, FiniteSets, TLC

\* ---------------------------------------------------------------- bounds
MaxKey == 2
MaxConn == 2
MaxDepth == 2
MaxCalls == 2
MaxNotify == 3
MaxArgs == 1

Keys == 1..MaxKey
ConnIds == 1..MaxConn
\* (minconns, maxconns) pairs given to open_pool
PoolSizes == {<<1, 1>>, <<1, 2>>, <<2, 2>>}
ExitModes == {"normal", "exception", "interrupt"}
Threads == {1, 2}
CurMethods == {0, 1}
FetchMethods == {0, 2}

\* ---------------------------------------------------------------- state
VARIABLES
    pool,      \* Database.pool: the psycopg2 pool (open flag, minconn, maxconn, _pool, _used)
    conns,     \* Database.conns: key -> connection
    status,    \* per physical connection: "none", "live", "dead" (connectivity lost), "closed"
    nconn,     \* number of physical connections created so far
    tx,        \* per physical connection: its transaction status on the server:
               \* "idle", "intrans" (transaction open), "inerror" (transaction aborted)
    scopes,    \* stack of keys of the active `with Database.connect(key)` scopes
    unwind,    \* exception propagating through the scopes: "none", "exc", "exit" (SystemExit)
    ev,        \* the last Database call and its outcome
    sd,        \* when the last Database call was a send on a checked-out key: its
               \* arguments and what it did (NoSend otherwise)
    \* -- concurrent callers of the Database (threads)
    tpc,       \* per thread: the line of get_connection / put_back_connection it is at
    tkey,      \* per thread: the key argument of its call
    tconn,     \* per thread: the local variable conn
    tres,      \* per thread: the outcome of its last call
    tcalls,    \* per thread: number of calls made
    acq,       \* history: <<thread, key>> for each successful acquire not yet released
    \* -- Listener
    running,   \* which greenlet has control: "main" (Listener.run), "g" (subscribe), "hub"
    rpc,       \* position of Listener.run
    gpc,       \* position of the greenthread g running Listener.subscribe, or how it ended
    sock,      \* notifications that reached the connection's socket, not yet polled
    notifies,  \* conn.notifies
    queue,     \* the eventlet.Queue
    cur,       \* the local variable notify of Listener.run
    calls,     \* history: the handler.on_notify calls
    enq,       \* history: notifications put on the queue, in order
    deq,       \* history: notifications taken from the queue, in order
    emitted,   \* number of notifications emitted on the channel
    listening, \* LISTEN succeeded on the connection
    cause,     \* why Listener.run left its loop: "none", "interrupt", "handler"
    intAt      \* where Listener.run was when the interrupt reached it

dbvars == <<pool, conns, status, nconn, tx>>
scvars == <<scopes, unwind, ev, sd>>
thvars == <<tpc, tkey, tconn, tres, tcalls, acq>>
lvars == <<running, rpc, gpc, sock, notifies, queue, cur, calls, enq, deq, emitted,
           listening, cause, intAt>>
vars == <<pool, conns, status, nconn, tx, scopes, unwind, ev, sd, tpc, tkey, tconn, tres, tcalls, acq,
          running, rpc, gpc, sock, notifies, queue, cur, calls, enq, deq, emitted,
          listening, cause, intAt>>

\* ---------------------------------------------------------------- helpers
Range(s) == {s[i] : i \in DOMAIN s}
Without(f, k) == [x \in DOMAIN f \ {k} |-> f[x]]
With(f, k, v) == [x \in DOMAIN f \cup {k} |-> IF x = k THEN v ELSE f[x]]
Last(s) == s[Len(s)]
Front(s) == SubSeq(s, 1, Len(s) - 1)
Event(op, key, res, mode, conn) == [op |-> op, key |-> key, res |-> res, mode |-> mode, conn |-> conn]

NoPool == [open |-> FALSE, minconn |-> 0, maxconn |-> 0, idle |-> <<>>, used |-> <<>>]
NoTx == [c \in ConnIds |-> "idle"]

\* ------------------------------------------------- psycopg2 pool (as called)
\* ThreadedConnectionPool(minconns, maxconns): minconn connections are opened eagerly
PoolInit(minc, maxc, n) ==
    [open |-> TRUE, minconn |-> minc, maxconn |-> maxc,
     idle |-> [i \in 1..minc |-> n + i], used |-> <<>>]

\* mutant of getconn: the idle connection handed out stays in the idle list
getconn_keeps_idle(p, key, n) ==
    IF p.idle # <<>>
    THEN [err |-> FALSE, conn |-> Last(p.idle), fresh |-> FALSE,
          pool |-> [p EXCEPT !.used = With(p.used, key, Last(p.idle))]]
    ELSE [err |-> TRUE, conn |-> 0, fresh |-> FALSE, pool |-> p]

\* mutant of getconn: no `len(self._used) == self.maxconn` test
getconn_no_limit(p, key, n) ==
    IF key \in DOMAIN p.used
    THEN [err |-> FALSE, conn |-> p.used[key], fresh |-> FALSE, pool |-> p]
    ELSE IF p.idle # <<>>
    THEN [err |-> FALSE, conn |-> Last(p.idle), fresh |-> FALSE,
          pool |-> [p EXCEPT !.idle = Front(p.idle), !.used = With(p.used, key, Last(p.idle))]]
    ELSE [err |-> FALSE, conn |-> n + 1, fresh |-> TRUE,
          pool |-> [p EXCEPT !.used = With(p.used, key, n + 1)]]

\* pool.getconn(key): the key's connection if it has one, else the last idle
\* connection, else a new one unless maxconn are in use (PoolError)
getconn(p, key, n) ==
    IF key \in DOMAIN p.used
    THEN [err |-> FALSE, conn |-> p.used[key], fresh |-> FALSE, pool |-> p]
    ELSE IF p.idle # <<>>
    THEN [err |-> FALSE, conn |-> Last(p.idle), fresh |-> FALSE,
          pool |-> [p EXCEPT !.idle = Front(p.idle), !.used = With(p.used, key, Last(p.idle))]]
    ELSE IF Cardinality(DOMAIN p.used) = p.maxconn
    THEN [err |-> TRUE, conn |-> 0, fresh |-> FALSE, pool |-> p]
    ELSE [err |-> FALSE, conn |-> n + 1, fresh |-> TRUE,
          pool |-> [p EXCEPT !.used = With(p.used, key, n + 1)]]

\* pool.putconn(conn, key): keeps the connection idle while fewer than minconn are
\* idle, closes it otherwise; then forgets the key (KeyError if it is not in use)
putconn(p, conn, key) ==
    LET keep == Len(p.idle) < p.minconn
    IN  [err |-> key \notin DOMAIN p.used,
         closed |-> ~keep,
         pool |-> [p EXCEPT !.idle = IF keep THEN Append(p.idle, conn) ELSE p.idle,
                            !.used = Without(p.used, key)]]

\* pool.closeall(): closes every idle and every used connection
closeall(p, st) ==
    [c \in ConnIds |-> IF c \in Range(p.idle) \cup Range(p.used) THEN "closed" ELSE st[c]]

\* ------------------------------------------------- psycopg2 connection, cursor
\* a statement template: ph placeholders, accepted by the server once they are all
\* bound (ok), and what it yields: "none" (no result set), "empty", "some" (rows)
Queries == [ph : 0..MaxArgs, ok : BOOLEAN, rows : {"none", "empty", "some"}]
\* the args argument: None, or a tuple of that many parameters
NoArgs == -1
ArgsValues == {NoArgs} \cup 0..MaxArgs

\* cur.mogrify(query, args) / cur.mogrify(query): the number of parameters it binds,
\* or -1 when it raises; without args the template is taken as it is
mogrify(q, args) ==
    IF args = NoArgs THEN 0
    ELSE IF args = q.ph THEN args
    ELSE -1

\* placeholders left in the statement text that is executed
unbound(q, args) == IF args = NoArgs THEN q.ph ELSE 0

\* cur.fetchone() / cur.fetchall() on a statement that yielded a result set
fetch(q, fetch_method) ==
    IF fetch_method = 0
    THEN (IF q.rows = "some" THEN "row" ELSE "None")
    ELSE (IF q.rows = "some" THEN "rows" ELSE "[]")

\* mutant of rollback: the aborted transaction is left as it is
rollback_noop(t) == t

\* conn.rollback(): the transaction status afterwards
rollback(t) == "idle"

\* conn.commit(): the transaction status afterwards
commit(t) == "idle"

\* conn.reset(): the transaction status afterwards (any open transaction is discarded)
reset(t) == "idle"

\* no send on a checked-out key
NoSend == [q |-> [ph |-> 0, ok |-> TRUE, rows |-> "none"], args |-> NoArgs, fetch |-> 2,
           bound |-> 0, sent |-> FALSE, commits |-> 0, rollbacks |-> 0,
           err |-> "none", ret |-> "None", retry |-> FALSE]

\* ------------------------------------------------------------ class Database
\* no scope, no thread, no listener
NoScopes ==
    /\ scopes = <<>>
    /\ unwind = "none"
    /\ ev = Event("init", 0, "", "", 0)
    /\ sd = NoSend

NoThreads ==
    /\ tpc = [t \in Threads |-> "idle"]
    /\ tkey = [t \in Threads |-> 0]
    /\ tconn = [t \in Threads |-> 0]
    /\ tres = [t \in Threads |-> "none"]
    /\ tcalls = [t \in Threads |-> 0]
    /\ acq = {}

NoListener ==
    /\ running = "main"
    /\ rpc = "start"
    /\ gpc = "none"
    /\ sock = <<>>
    /\ notifies = <<>>
    /\ queue = <<>>
    /\ cur = 0
    /\ calls = <<>>
    /\ enq = <<>>
    /\ deq = <<>>
    /\ emitted = 0
    /\ listening = FALSE
    /\ cause = "none"
    /\ intAt = "none"

\* Database.__init__: no pool, no active connections
Init ==
    /\ pool = NoPool
    /\ conns = <<>>
    /\ status = [c \in ConnIds |-> "none"]
    /\ nconn = 0
    /\ tx = NoTx
    /\ NoScopes
    /\ NoThreads
    /\ NoListener

\* mutant of open_pool: no `if self.pool is None` test
open_pool_always(minc, maxc) ==
    /\ nconn + minc <= MaxConn
    /\ pool' = PoolInit(minc, maxc, nconn)
    /\ status' = [c \in ConnIds |-> IF c \in (nconn + 1)..(nconn + minc) THEN "live" ELSE status[c]]
    /\ nconn' = nconn + minc
    /\ UNCHANGED <<conns, tx>>
    /\ ev' = Event("open", 0, "opened", "", 0)

\* open_pool(minconns, maxconns): creates the pool unless there is one
open_pool(minc, maxc) ==
    IF pool.open
    THEN /\ UNCHANGED dbvars
         /\ ev' = Event("open", 0, "noop", "", 0)
    ELSE /\ nconn + minc <= MaxConn
         /\ pool' = PoolInit(minc, maxc, nconn)
         /\ status' = [c \in ConnIds |-> IF c \in (nconn + 1)..(nconn + minc) THEN "live" ELSE status[c]]
         /\ nconn' = nconn + minc
         /\ UNCHANGED <<conns, tx>>
         /\ ev' = Event("open", 0, "opened", "", 0)

\* close_pool(): closeall and forget the pool; Database.conns is left as it is
close_pool ==
    IF pool.open
    THEN /\ status' = closeall(pool, status)
         /\ pool' = NoPool
         /\ UNCHANGED <<conns, nconn, tx>>
         /\ ev' = Event("close", 0, "closed", "", 0)
    ELSE /\ UNCHANGED dbvars
         /\ ev' = Event("close", 0, "noop", "", 0)

\* mutant of get_connection: no `if key not in self.conns` test
get_connection_unchecked(key, op) ==
    /\ pool.open
    /\ LET r == getconn(pool, key, nconn)
       IN  /\ ~r.err /\ ~r.fresh
           /\ pool' = r.pool
           /\ conns' = With(conns, key, r.conn)
           /\ UNCHANGED <<status, nconn, tx>>
           /\ ev' = Event(op, key, "acquired", "", r.conn)

\* get_connection, the branch that takes a connection from the pool
checkout(key, op) ==
    LET r == getconn(pool, key, nconn)
    IN  IF r.err
        THEN \* PoolError: logged, then sys.exit()
             /\ UNCHANGED dbvars
             /\ ev' = Event(op, key, "exit", "", 0)
        ELSE /\ r.fresh => nconn < MaxConn
             /\ pool' = r.pool
             /\ conns' = With(conns, key, r.conn)
             /\ status' = IF r.fresh THEN [status EXCEPT ![r.conn] = "live"] ELSE status
             /\ nconn' = IF r.fresh THEN nconn + 1 ELSE nconn
             /\ UNCHANGED tx
             \* on_conn_retrieval: SELECT version(); on a lost connection send()
             \* logs the error, unless its rollback raises as well
             /\ \E res \in (IF r.fresh \/ status[r.conn] = "live"
                            THEN {"acquired"} ELSE {"acquired", "raised"}) :
                   ev' = Event(op, key, res, "", r.conn)

\* mutant of get_connection: no `if self.pool` test (None.getconn raises)
get_connection_no_pool_test(key, op) ==
    IF ~pool.open
    THEN /\ UNCHANGED dbvars
         /\ ev' = Event(op, key, "raised", "", 0)
    ELSE IF key \in DOMAIN conns
    THEN /\ UNCHANGED dbvars
         /\ ev' = Event(op, key, "in_use", "", conns[key])
    ELSE checkout(key, op)

\* get_connection(key); op names the caller ("get": a direct call, "enter": connect())
get_connection(key, op) ==
    IF ~pool.open
    THEN /\ UNCHANGED dbvars
         /\ ev' = Event(op, key, "no_pool", "", 0)
    ELSE IF key \in DOMAIN conns
    THEN /\ UNCHANGED dbvars
         /\ ev' = Event(op, key, "in_use", "", conns[key])
    ELSE checkout(key, op)

\* put_back_connection, the branch that gives the key's connection back
give_back(key, op, mode) ==
    LET conn == conns[key]
    IN  IF status[conn] # "live" \/ ~pool.open
        THEN \* conn.reset() raises on a lost or closed connection
             /\ UNCHANGED dbvars
             /\ ev' = Event(op, key, "raised", mode, conn)
        ELSE LET r == putconn(pool, conn, key)
             IN  /\ tx' = [tx EXCEPT ![conn] = reset(@)]
                 /\ pool' = r.pool
                 /\ status' = IF r.closed THEN [status EXCEPT ![conn] = "closed"] ELSE status
                 /\ conns' = IF r.err THEN conns ELSE Without(conns, key)
                 /\ UNCHANGED nconn
                 /\ ev' = Event(op, key, IF r.err THEN "raised" ELSE "released", mode, conn)

\* mutant of put_back_connection: no `if key in self.conns` test (KeyError)
put_back_connection_unchecked(key, op, mode) ==
    IF key \notin DOMAIN conns
    THEN /\ UNCHANGED dbvars
         /\ ev' = Event(op, key, "raised", mode, 0)
    ELSE give_back(key, op, mode)

\* put_back_connection(key); op names the caller ("put": direct, "exit": connect())
put_back_connection(key, op, mode) ==
    IF key \notin DOMAIN conns
    THEN /\ UNCHANGED dbvars
         /\ ev' = Event(op, key, "unknown_key", mode, 0)
    ELSE give_back(key, op, mode)

\* what propagates out of a call with the given outcome
\* send, the try block, on a connection in state st with transaction status t.
\* intr: where a KeyboardInterrupt arrives, if any ("before" / "after" the statement
\* ran); rbraises: conn.rollback() raises on a connection that lost connectivity
\* (when it has to reach the server, or the failed statement closed the connection).
\* except: rollback and log, the call returns None; an interrupt is not caught.
send_try(q, args, cur_method, fetch_method, st, t, intr, rbraises) ==
    LET out(res, bound, sent, commits, rollbacks, err, ret, t2) ==
            [res |-> res, bound |-> bound, sent |-> sent, commits |-> commits,
             rollbacks |-> rollbacks, err |-> err, ret |-> ret, tx |-> t2]
        failed(bound, sent, err, t1) ==
            IF st = "closed" \/ (st = "dead" /\ (sent \/ t1 # "idle") /\ rbraises)
            THEN out("raised", bound, sent, 0, 1, err, "None", t1)
            ELSE out("failed", bound, sent, 0, 1, err, "None", rollback(t1))
        b == mogrify(q, args)
        records == IF q.rows = "none" THEN "[]" ELSE fetch(q, fetch_method)
    IN  IF st = "closed" THEN failed(0, FALSE, "connection", t)
        ELSE IF intr = "before" THEN out("interrupted", 0, FALSE, 0, 0, "interrupt", "None", t)
        ELSE IF b = -1 THEN failed(0, FALSE, "bind", t)
        ELSE IF st = "dead" THEN failed(b, cur_method \in CurMethods, "connection", t)
        ELSE IF cur_method \in CurMethods /\ ~(q.ok /\ unbound(q, args) = 0 /\ t # "inerror")
        THEN failed(b, TRUE, "statement", "inerror")
        ELSE IF intr = "after"
        THEN out("interrupted", b, cur_method \in CurMethods, 0, 0, "interrupt", "None", "intrans")
        ELSE out("ok", b, cur_method \in CurMethods, 1, 0, "none", records, commit("intrans"))

\* send(query, args, cur_method=, fetch_method=, key=)
send(key, q, args, cur_method, fetch_method) ==
    IF key \notin DOMAIN conns
    THEN /\ UNCHANGED dbvars
         /\ sd' = NoSend
         /\ ev' = Event("send", key, "unknown_key", "", 0)
    ELSE LET conn == conns[key]
         IN  \E intr \in {"none", "before", "after"},
                rbraises \in (IF status[conn] = "dead" THEN BOOLEAN ELSE {FALSE}) :
               LET r == send_try(q, args, cur_method, fetch_method, status[conn], tx[conn],
                                 intr, rbraises)
               IN  /\ tx' = [tx EXCEPT ![conn] = r.tx]
                   \* finally: self.conns[key] = conn
                   /\ conns' = With(conns, key, conn)
                   /\ UNCHANGED <<pool, status, nconn>>
                   /\ sd' = [q |-> q, args |-> args, fetch |-> fetch_method,
                             bound |-> r.bound, sent |-> r.sent, commits |-> r.commits,
                             rollbacks |-> r.rollbacks, err |-> r.err, ret |-> r.ret,
                             \* history: the call before was a send on this key that
                             \* the server rejected
                             retry |-> ev.op = "send" /\ ev.key = key /\ sd.err = "statement"]
                   /\ ev' = Event("send", key, r.res, "", conn)

Raised(res) == IF res = "raised" THEN "exc" ELSE IF res = "exit" THEN "exit" ELSE "none"

OpenPool(minc, maxc) ==
    /\ unwind = "none"
    /\ open_pool(minc, maxc)
    /\ sd' = NoSend
    /\ UNCHANGED <<scopes, unwind>>
    /\ UNCHANGED <<thvars, lvars>>

ClosePool ==
    /\ unwind = "none"
    /\ close_pool
    /\ sd' = NoSend
    /\ UNCHANGED <<scopes, unwind>>
    /\ UNCHANGED <<thvars, lvars>>

GetConnection(key) ==
    /\ unwind = "none"
    /\ get_connection(key, "get")
    /\ unwind' = Raised(ev'.res)
    /\ sd' = NoSend
    /\ UNCHANGED scopes
    /\ UNCHANGED <<thvars, lvars>>

PutBackConnection(key) ==
    /\ unwind = "none"
    /\ put_back_connection(key, "put", "")
    /\ unwind' = Raised(ev'.res)
    /\ sd' = NoSend
    /\ UNCHANGED scopes
    /\ UNCHANGED <<thvars, lvars>>

\* connect(key), entry: get_connection(key), then the body starts
ConnectEnter(key) ==
    /\ unwind = "none"
    /\ Len(scopes) < MaxDepth
    /\ get_connection(key, "enter")
    /\ unwind' = Raised(ev'.res)
    /\ scopes' = IF unwind' = "none" THEN Append(scopes, key) ELSE scopes
    /\ sd' = NoSend
    /\ UNCHANGED <<thvars, lvars>>

\* connect(key), exit: the body ends normally, by an exception or by an interrupt
\* (both caught and logged), or SystemExit passes through; finally: put_back_connection
ConnectExit(mode) ==
    /\ scopes # <<>>
    /\ \/ unwind = "none" /\ mode \in ExitModes
       \/ unwind = "exc" /\ mode = "exception"
       \/ unwind = "exit" /\ mode = "sysexit"
    /\ put_back_connection(Last(scopes), "exit", mode)
    /\ scopes' = Front(scopes)
    /\ unwind' = IF ev'.res = "raised" THEN "exc"
                 ELSE IF mode = "sysexit" THEN "exit" ELSE "none"
    /\ sd' = NoSend
    /\ UNCHANGED <<thvars, lvars>>

\* the environment: a physical connection loses connectivity
DropConn(c) ==
    /\ unwind = "none"
    /\ status[c] = "live"
    /\ status' = [status EXCEPT ![c] = "dead"]
    /\ ev' = Event("drop", 0, "", "", c)
    /\ sd' = NoSend
    /\ UNCHANGED <<pool, conns, nconn, tx, scopes, unwind>>
    /\ UNCHANGED <<thvars, lvars>>

\* a caller runs send; what send raises propagates to the caller
Send(key, q, args, cur_method, fetch_method) ==
    /\ unwind = "none"
    /\ send(key, q, args, cur_method, fetch_method)
    /\ unwind' = IF ev'.res \in {"raised", "interrupted"} THEN "exc" ELSE "none"
    /\ UNCHANGED scopes
    /\ UNCHANGED <<thvars, lvars>>

Next ==
    \/ \E sz \in PoolSizes : OpenPool(sz[1], sz[2])
    \/ ClosePool
    \/ \E k \in Keys : GetConnection(k)
    \/ \E k \in Keys : PutBackConnection(k)
    \/ \E k \in Keys : ConnectEnter(k)
    \/ \E m \in ExitModes \cup {"sysexit"} : ConnectExit(m)
    \/ \E c \in ConnIds : DropConn(c)

Spec == Init /\ [][Next]_vars

\* ------------------------------------------------ statements on a session
\* open_pool(1) and get_connection(1): one connection, checked out under key 1
SendInit ==
    /\ pool = [PoolInit(1, 1, 0) EXCEPT !.idle = <<>>, !.used = With(<<>>, 1, 1)]
    /\ conns = With(<<>>, 1, 1)
    /\ status = [c \in ConnIds |-> IF c = 1 THEN "live" ELSE "none"]
    /\ nconn = 1
    /\ tx = NoTx
    /\ NoScopes
    /\ NoThreads
    /\ NoListener

SendNext ==
    \/ \E k \in DOMAIN conns, q \in Queries, args \in ArgsValues, cm \in CurMethods,
          fm \in FetchMethods : Send(k, q, args, cm, fm)
    \/ \E k \in Keys \ DOMAIN conns : Send(k, NoSend.q, NoSend.args, 0, NoSend.fetch)
    \/ \E k \in Keys : GetConnection(k)
    \/ \E k \in Keys : PutBackConnection(k)
    \/ \E c \in ConnIds : DropConn(c)

SpecSend == SendInit /\ [][SendNext]_vars

\* ------------------------------------------ concurrent callers of the Database
\* Each thread runs get_connection / put_back_connection one statement at a time;
\* the Database takes no lock, pool.getconn and pool.putconn take the pool's own.

\* the call returns (or raises) with outcome res; its locals are gone
Finish(t, res) ==
    /\ tpc' = [tpc EXCEPT ![t] = "idle"]
    /\ tres' = [tres EXCEPT ![t] = res]
    /\ tkey' = [tkey EXCEPT ![t] = 0]
    /\ tconn' = [tconn EXCEPT ![t] = 0]

\* the call goes on to the given statement, its local conn being c
Goto(t, line, c) ==
    /\ tpc' = [tpc EXCEPT ![t] = line]
    /\ tconn' = [tconn EXCEPT ![t] = c]
    /\ UNCHANGED <<tres, tkey>>

\* an open pool, as created by open_pool, and no connection checked out
ThreadsInit ==
    /\ \E sz \in PoolSizes :
          /\ pool = PoolInit(sz[1], sz[2], 0)
          /\ status = [c \in ConnIds |-> IF c <= sz[1] THEN "live" ELSE "none"]
          /\ nconn = sz[1]
    /\ conns = <<>>
    /\ tx = NoTx
    /\ NoScopes
    /\ NoThreads
    /\ NoListener

\* a thread calls get_connection(key)
TCallGet(t, key) ==
    /\ tpc[t] = "idle"
    /\ tcalls[t] < MaxCalls
    /\ tcalls' = [tcalls EXCEPT ![t] = @ + 1]
    /\ tpc' = [tpc EXCEPT ![t] = "get_check"]
    /\ tkey' = [tkey EXCEPT ![t] = key]
    /\ tres' = [tres EXCEPT ![t] = "none"]
    /\ UNCHANGED <<dbvars, scvars, tconn, acq, lvars>>

\* `if self.pool:` and `if key not in self.conns:`
TGetCheck(t) ==
    /\ tpc[t] = "get_check"
    /\ IF ~pool.open THEN Finish(t, "no_pool")
       ELSE IF tkey[t] \in DOMAIN conns THEN Finish(t, "in_use")
       ELSE Goto(t, "get_getconn", 0)
    /\ UNCHANGED <<dbvars, scvars, tcalls, acq, lvars>>

\* `conn = self.pool.getconn(key)`
TGetConn(t) ==
    /\ tpc[t] = "get_getconn"
    /\ LET r == getconn(pool, tkey[t], nconn)
       IN  IF r.err
           THEN /\ Finish(t, "exit")
                /\ UNCHANGED dbvars
           ELSE /\ r.fresh => nconn < MaxConn
                /\ pool' = r.pool
                /\ status' = IF r.fresh THEN [status EXCEPT ![r.conn] = "live"] ELSE status
                /\ nconn' = IF r.fresh THEN nconn + 1 ELSE nconn
                /\ Goto(t, "get_record", r.conn)
                /\ UNCHANGED <<conns, tx>>
    /\ UNCHANGED <<scvars, tcalls, acq, lvars>>

\* `self.conns[key] = conn`
TGetRecord(t) ==
    /\ tpc[t] = "get_record"
    /\ conns' = With(conns, tkey[t], tconn[t])
    /\ Goto(t, "get_probe", tconn[t])
    /\ UNCHANGED <<pool, status, nconn, tx, scvars, tcalls, acq, lvars>>

\* the success log and on_conn_retrieval(key): the call returns as acquired
TGetProbe(t) ==
    /\ tpc[t] = "get_probe"
    /\ Finish(t, "acquired")
    /\ acq' = acq \cup {<<t, tkey[t]>>}
    /\ UNCHANGED <<dbvars, scvars, tcalls, lvars>>

\* a thread calls put_back_connection(key)
TCallPut(t, key) ==
    /\ tpc[t] = "idle"
    /\ tcalls[t] < MaxCalls
    /\ tcalls' = [tcalls EXCEPT ![t] = @ + 1]
    /\ tpc' = [tpc EXCEPT ![t] = "put_check"]
    /\ tkey' = [tkey EXCEPT ![t] = key]
    /\ tres' = [tres EXCEPT ![t] = "none"]
    /\ UNCHANGED <<dbvars, scvars, tconn, acq, lvars>>

\* `if key in self.conns:` and `conn = self.conns[key]`
TPutCheck(t) ==
    /\ tpc[t] = "put_check"
    /\ IF tkey[t] \in DOMAIN conns
       THEN Goto(t, "put_reset", conns[tkey[t]])
       ELSE Finish(t, "unknown_key")
    /\ UNCHANGED <<dbvars, scvars, tcalls, acq, lvars>>

\* `conn.reset()`
TPutReset(t) ==
    /\ tpc[t] = "put_reset"
    /\ IF status[tconn[t]] = "live"
       THEN /\ Goto(t, "put_putconn", tconn[t])
            /\ tx' = [tx EXCEPT ![tconn[t]] = reset(@)]
       ELSE /\ Finish(t, "raised")
            /\ UNCHANGED tx
    /\ UNCHANGED <<pool, conns, status, nconn, scvars, tcalls, acq, lvars>>

\* `self.pool.putconn(conn, key)`
TPutConn(t) ==
    /\ tpc[t] = "put_putconn"
    /\ LET r == putconn(pool, tconn[t], tkey[t])
       IN  /\ pool' = r.pool
           /\ status' = IF r.closed THEN [status EXCEPT ![tconn[t]] = "closed"] ELSE status
           /\ IF r.err THEN Finish(t, "raised") ELSE Goto(t, "put_pop", tconn[t])
    /\ UNCHANGED <<conns, nconn, tx, scvars, tcalls, acq, lvars>>

\* `self.conns.pop(key)`
TPutPop(t) ==
    /\ tpc[t] = "put_pop"
    /\ IF tkey[t] \in DOMAIN conns
       THEN /\ conns' = Without(conns, tkey[t])
            /\ acq' = {p \in acq : p[2] # tkey[t]}
            /\ Finish(t, "released")
       ELSE /\ Finish(t, "raised")
            /\ UNCHANGED <<conns, acq>>
    /\ UNCHANGED <<pool, status, nconn, tx, scvars, tcalls, lvars>>

\* a thread calls send(query, None, key=key) with a statement the server accepts
TCallSend(t, key) ==
    /\ tpc[t] = "idle"
    /\ tcalls[t] < MaxCalls
    /\ tcalls' = [tcalls EXCEPT ![t] = @ + 1]
    /\ tpc' = [tpc EXCEPT ![t] = "send_check"]
    /\ tkey' = [tkey EXCEPT ![t] = key]
    /\ tres' = [tres EXCEPT ![t] = "none"]
    /\ UNCHANGED <<dbvars, scvars, tconn, acq, lvars>>

\* `if key in self.conns:` and `conn = self.conns[key]`
TSendCheck(t) ==
    /\ tpc[t] = "send_check"
    /\ IF tkey[t] \in DOMAIN conns
       THEN Goto(t, "send_try", conns[tkey[t]])
       ELSE Finish(t, "unknown_key")
    /\ UNCHANGED <<dbvars, scvars, tcalls, acq, lvars>>

\* the try block: the statement runs on conn and is committed, or rolled back
TSendTry(t) ==
    /\ tpc[t] = "send_try"
    /\ LET c == tconn[t]
           r == send_try(NoSend.q, NoArgs, 0, NoSend.fetch, status[c], tx[c], "none", FALSE)
       IN  tx' = [tx EXCEPT ![c] = r.tx]
    /\ Goto(t, "send_finally", tconn[t])
    /\ UNCHANGED <<pool, conns, status, nconn, scvars, tcalls, acq, lvars>>

\* `finally: self.conns[key] = conn`
TSendFinally(t) ==
    /\ tpc[t] = "send_finally"
    /\ conns' = With(conns, tkey[t], tconn[t])
    /\ Finish(t, "sent")
    /\ UNCHANGED <<pool, status, nconn, tx, scvars, tcalls, acq, lvars>>

ThreadsNext ==
    \/ \E t \in Threads, k \in Keys : TCallGet(t, k)
    \/ \E t \in Threads : TGetCheck(t)
    \/ \E t \in Threads : TGetConn(t)
    \/ \E t \in Threads : TGetRecord(t)
    \/ \E t \in Threads : TGetProbe(t)
    \/ \E t \in Threads, k \in Keys : TCallPut(t, k)
    \/ \E t \in Threads : TPutCheck(t)
    \/ \E t \in Threads : TPutReset(t)
    \/ \E t \in Threads : TPutConn(t)
    \/ \E t \in Threads : TPutPop(t)
    \/ \E t \in Threads, k \in Keys : TCallSend(t, k)
    \/ \E t \in Threads : TSendCheck(t)
    \/ \E t \in Threads : TSendTry(t)
    \/ \E t \in Threads : TSendFinally(t)

SpecThreads == ThreadsInit /\ [][ThreadsNext]_vars

\* ------------------------------------------------------------ class Listener
\* Listener.run is the main greenlet, Listener.subscribe runs in greenthread g; the
\* eventlet hub has control while both are suspended. Control changes hands only
\* where a greenlet suspends: queue.get() on an empty queue, and trampoline().
LKey == 1                          \* Listener.key (default key=1)
Alive(pc) == pc \in {"spawned", "subscribe", "wait", "poll", "drain"}
LConn == IF LKey \in DOMAIN conns THEN conns[LKey] ELSE 0
Readable == sock # <<>> \/ status[LConn] # "live"

\* the arguments Listener.run passes to handler.on_notify for a notification: none
on_notify_args(notify) == <<>>

\* a pool is open and the listener's key is checked out (as in manager.py), or is not
ListenerInit ==
    /\ \E held \in BOOLEAN :
          IF held
          THEN /\ pool = [PoolInit(1, 1, 0) EXCEPT !.idle = <<>>, !.used = With(<<>>, LKey, 1)]
               /\ conns = With(<<>>, LKey, 1)
          ELSE /\ pool = PoolInit(1, 1, 0)
               /\ conns = <<>>
    /\ status = [c \in ConnIds |-> IF c = 1 THEN "live" ELSE "none"]
    /\ nconn = 1
    /\ tx = NoTx
    /\ NoScopes
    /\ NoThreads
    /\ NoListener

\* run: `queue = eventlet.Queue()`, `g = eventlet.spawn(self.subscribe, queue)`
RunStart ==
    /\ running = "main" /\ rpc = "start"
    /\ gpc' = "spawned"
    /\ rpc' = "get"
    /\ UNCHANGED <<dbvars, scvars, thvars, running, sock, notifies, queue, cur, calls,
                   enq, deq, emitted, listening, cause, intAt>>

\* mutant of Dequeue: the item is read and left on the queue
Dequeue_keeps_item ==
    /\ cur' = Head(queue)
    /\ queue' = queue
    /\ deq' = Append(deq, Head(queue))
    /\ rpc' = "got"

\* the head of the queue is handed to run as `notify`
Dequeue ==
    /\ cur' = Head(queue)
    /\ queue' = Tail(queue)
    /\ deq' = Append(deq, Head(queue))
    /\ rpc' = "got"

\* run: `notify = queue.get()`: returns at once on a non-empty queue, else suspends
RunGet ==
    /\ running = "main" /\ rpc = "get"
    /\ IF queue # <<>>
       THEN /\ Dequeue
            /\ UNCHANGED running
       ELSE /\ rpc' = "blocked"
            /\ running' = "hub"
            /\ UNCHANGED <<cur, queue, deq>>
    /\ UNCHANGED <<dbvars, scvars, thvars, gpc, sock, notifies, calls, enq, emitted,
                   listening, cause, intAt>>

\* the hub resumes run, suspended in queue.get(), once the queue has an item
HubWakeMain ==
    /\ running = "hub" /\ rpc = "blocked" /\ queue # <<>>
    /\ Dequeue
    /\ running' = "main"
    /\ UNCHANGED <<dbvars, scvars, thvars, gpc, sock, notifies, calls, enq, emitted,
                   listening, cause, intAt>>

\* run: the Got NOTIFY log, then `self.handler.on_notify()` is entered
RunHandlerStart ==
    /\ running = "main" /\ rpc = "got"
    /\ calls' = Append(calls, [n |-> cur, args |-> on_notify_args(cur), done |-> FALSE])
    /\ rpc' = "handling"
    /\ UNCHANGED <<dbvars, scvars, thvars, running, gpc, sock, notifies, queue, cur,
                   enq, deq, emitted, listening, cause, intAt>>

\* on_notify returns (then queue.task_done() and the loop goes round), or raises
RunHandlerEnd(outcome) ==
    /\ running = "main" /\ rpc = "handling"
    /\ IF outcome = "ok"
       THEN /\ calls' = [calls EXCEPT ![Len(calls)].done = TRUE]
            /\ rpc' = "get"
            /\ UNCHANGED cause
       ELSE /\ rpc' = "except"
            /\ cause' = "handler"
            /\ UNCHANGED calls
    /\ UNCHANGED <<dbvars, scvars, thvars, running, gpc, sock, notifies, queue, cur,
                   enq, deq, emitted, listening, intAt>>

\* KeyboardInterrupt reaches run: in its loop body, or suspended in queue.get()
Interrupt ==
    /\ \/ running = "main" /\ rpc \in {"get", "got", "handling"}
       \/ running = "hub" /\ rpc = "blocked"
    /\ intAt' = rpc
    /\ cause' = "interrupt"
    /\ rpc' = "except"
    /\ running' = "main"
    /\ UNCHANGED <<dbvars, scvars, thvars, gpc, sock, notifies, queue, cur, calls,
                   enq, deq, emitted, listening>>

\* KeyboardInterrupt while g has control: it ends subscribe, passes through the hub
\* and is raised in run, suspended in queue.get()
InterruptProducer ==
    /\ running = "g"
    /\ gpc' = "interrupted"
    /\ intAt' = "producer"
    /\ cause' = "interrupt"
    /\ rpc' = "except"
    /\ running' = "main"
    /\ UNCHANGED <<dbvars, scvars, thvars, sock, notifies, queue, cur, calls, enq, deq,
                   emitted, listening>>

\* mutant of RunExcept: `break` without eventlet.kill(g)
RunExcept_no_kill ==
    /\ running = "main" /\ rpc = "except"
    /\ rpc' = "done"
    /\ UNCHANGED <<dbvars, scvars, thvars, running, gpc, sock, notifies, queue, cur,
                   calls, enq, deq, emitted, listening, cause, intAt>>

\* run: `except (Exception, KeyboardInterrupt): eventlet.kill(g)`, log, `break`
RunExcept ==
    /\ running = "main" /\ rpc = "except"
    /\ gpc' = IF Alive(gpc) THEN "killed" ELSE gpc
    /\ rpc' = "done"
    /\ UNCHANGED <<dbvars, scvars, thvars, running, sock, notifies, queue, cur, calls,
                   enq, deq, emitted, listening, cause, intAt>>

\* the hub starts the spawned greenthread
HubStartG ==
    /\ running = "hub" /\ gpc = "spawned"
    /\ gpc' = "subscribe"
    /\ running' = "g"
    /\ UNCHANGED <<dbvars, scvars, thvars, rpc, sock, notifies, queue, cur, calls, enq,
                   deq, emitted, listening, cause, intAt>>

\* listen_on_channel(channel, key): send("LISTEN " + channel + ";", None, key=key);
\* chanok: the server accepts the statement built from the channel name
listen_on_channel(chanok, rbraises) ==
    send_try([ph |-> 0, ok |-> chanok, rows |-> "none"], NoArgs, 0, NoSend.fetch,
             status[LConn], tx[LConn], "none", rbraises)

\* subscribe: listen_on_channel (send logs a failure and returns, unless its rollback
\* raises; without the key it only warns), `conn = self.pool.conns[self.key]`
\* (KeyError without the key), first trampoline
GSubscribe ==
    /\ running = "g" /\ gpc = "subscribe"
    /\ IF LKey \notin DOMAIN conns
       THEN /\ gpc' = "failed_listen"
            /\ listening' = FALSE
       ELSE \E chanok \in BOOLEAN, rbraises \in BOOLEAN :
              LET r == listen_on_channel(chanok, rbraises)
              IN  /\ gpc' = IF r.res = "raised" THEN "failed_listen" ELSE "wait"
                  /\ listening' = (r.res = "ok")
    /\ running' = "hub"
    /\ UNCHANGED <<dbvars, scvars, thvars, rpc, sock, notifies, queue, cur, calls, enq,
                   deq, emitted, cause, intAt>>

\* the hub resumes g, suspended in trampoline, when the connection is readable;
\* the hub fires its timers (the waiting getter) before it waits for descriptors
HubWakeG ==
    /\ running = "hub" /\ gpc = "wait" /\ Readable
    /\ ~(rpc = "blocked" /\ queue # <<>>)
    /\ gpc' = "poll"
    /\ running' = "g"
    /\ UNCHANGED <<dbvars, scvars, thvars, rpc, sock, notifies, queue, cur, calls, enq,
                   deq, emitted, listening, cause, intAt>>

\* subscribe: `conn.poll()` appends what arrived to conn.notifies, in arrival order;
\* it raises on a lost connection, which ends the greenthread
GPoll ==
    /\ running = "g" /\ gpc = "poll"
    /\ IF status[LConn] = "live"
       THEN /\ notifies' = notifies \o sock
            /\ gpc' = "drain"
            /\ UNCHANGED running
       ELSE /\ gpc' = "failed_poll"
            /\ running' = "hub"
            /\ UNCHANGED notifies
    /\ sock' = <<>>
    /\ UNCHANGED <<dbvars, scvars, thvars, rpc, queue, cur, calls, enq, deq, emitted,
                   listening, cause, intAt>>

\* subscribe: `notify = conn.notifies.pop()`, `q.put(notify)` (list.pop() takes the
\* last element; the queue is unbounded, so put does not suspend)
GDrainOne ==
    /\ running = "g" /\ gpc = "drain" /\ notifies # <<>>
    /\ notifies' = Front(notifies)
    /\ queue' = Append(queue, Last(notifies))
    /\ enq' = Append(enq, Last(notifies))
    /\ UNCHANGED <<dbvars, scvars, thvars, running, rpc, gpc, sock, cur, calls, deq,
                   emitted, listening, cause, intAt>>

\* mutant of GDrainDone: the drain loop may end with conn.notifies not empty
GDrainDone_early ==
    /\ running = "g" /\ gpc = "drain"
    /\ gpc' = "wait"
    /\ running' = "hub"
    /\ UNCHANGED <<dbvars, scvars, thvars, rpc, sock, notifies, queue, cur, calls, enq,
                   deq, emitted, listening, cause, intAt>>

\* subscribe: `while conn.notifies` ends, back to trampoline
GDrainDone ==
    /\ running = "g" /\ gpc = "drain" /\ notifies = <<>>
    /\ gpc' = "wait"
    /\ running' = "hub"
    /\ UNCHANGED <<dbvars, scvars, thvars, rpc, sock, notifies, queue, cur, calls, enq,
                   deq, emitted, listening, cause, intAt>>

\* the environment: a NOTIFY on the channel reaches the listening connection
Emit ==
    /\ emitted < MaxNotify
    /\ listening /\ status[LConn] = "live"
    /\ emitted' = emitted + 1
    /\ sock' = Append(sock, emitted + 1)
    /\ UNCHANGED <<dbvars, scvars, thvars, running, rpc, gpc, notifies, queue, cur,
                   calls, enq, deq, listening, cause, intAt>>

\* the environment: the listener's connection loses connectivity
ListenerDrop ==
    /\ LKey \in DOMAIN conns /\ status[LConn] = "live"
    /\ status' = [status EXCEPT ![LConn] = "dead"]
    /\ UNCHANGED <<pool, conns, nconn, tx, scvars, thvars, lvars>>

\* the steps the program takes by itself
ListenerStep ==
    \/ RunStart
    \/ RunGet
    \/ HubWakeMain
    \/ RunHandlerStart
    \/ RunHandlerEnd("ok")
    \/ RunExcept
    \/ HubStartG
    \/ GSubscribe
    \/ HubWakeG
    \/ GPoll
    \/ GDrainOne
    \/ GDrainDone

ListenerNext ==
    \/ ListenerStep
    \/ RunHandlerEnd("raise")
    \/ Interrupt
    \/ InterruptProducer
    \/ Emit
    \/ ListenerDrop

SpecListener == ListenerInit /\ [][ListenerNext]_vars

\* a greenlet that has control, and the hub when it has something to resume, go on
FairListener == SpecListener /\ WF_vars(ListenerStep)

\* ==================================================================== claims
Increasing(s) == \A i, j \in DOMAIN s : i < j => s[i] < s[j]
NoDup(s) == \A i, j \in DOMAIN s : i # j => s[i] # s[j]
CallsFor(n) == {i \in DOMAIN calls : calls[i].n = n}
Handled(n) == \E i \in CallsFor(n) : calls[i].done

\* C1 (Spec): in every reachable state no two keys of Database.conns are mapped to
\* the same physical connection.
C1_PoolExclusivity ==
    \A k1, k2 \in DOMAIN conns : k1 # k2 => conns[k1] # conns[k2]

\* two keys are checked out of an open pool at once
C1_Witness ==
    /\ pool.open
    /\ Cardinality(DOMAIN conns) >= 2
    /\ \A k \in DOMAIN conns : k \in DOMAIN pool.used /\ pool.used[k] = conns[k]

\* C2 (Spec): a get_connection(k) made while k is checked out of the open pool yields
\* the already-in-use outcome, takes nothing from the pool and leaves k mapped to the
\* same connection, in the same state.
C2_SameKeyReacquire ==
    [][(ev'.op \in {"get", "enter"} /\ pool.open /\ ev'.key \in DOMAIN conns)
        => (/\ ev'.res = "in_use"
            /\ pool' = pool
            /\ conns' = conns
            /\ status' = status
            /\ ev'.conn = conns[ev'.key])]_vars

\* a get_connection(k) has just been refused while k was checked out and live
C2_Witness ==
    /\ ev.op = "get" /\ ev.res = "in_use"
    /\ pool.open
    /\ ev.key \in DOMAIN pool.used
    /\ conns[ev.key] = pool.used[ev.key]
    /\ status[conns[ev.key]] = "live"

\* C3 (SpecThreads): of two callers of get_connection with the same key, with no
\* release in between, at most one comes back believing it acquired the key.
C3_AtomicAcquire ==
    \A k \in Keys : Cardinality({t \in Threads : <<t, k>> \in acq}) <= 1

\* C4 (Spec): once a `with connect(k)` scope on an open pool has exited, in whatever
\* way its body ended, k is not mapped in Database.conns and the connection it had
\* is idle in the pool.
C4_ScopedRelease ==
    (ev.op = "exit" /\ pool.open)
        => (/\ ev.key \notin DOMAIN conns
            /\ ev.conn # 0 => ev.conn \in Range(pool.idle))

\* C5 (SpecListener): notifications are put on the queue, and taken from it, in the
\* order in which they arrived (they are numbered in arrival order).
C5_FifoDelivery ==
    /\ Increasing(enq)
    /\ Increasing(deq)

\* C6 (FairListener): once subscribe, listening on the channel, has ended on a
\* connectivity error met in its wait/poll/drain cycle, run leaves its loop.
C6_FailureSurfaced ==
    (listening /\ gpc = "failed_poll") ~> (rpc \in {"except", "done"})

Quiescent ==
    /\ cause = "none" /\ rpc = "blocked" /\ gpc = "wait"
    /\ listening /\ status[LConn] = "live"
    /\ sock = <<>> /\ notifies = <<>> /\ queue = <<>>

C8_NoLossOnInterrupt ==
    (rpc = "done" /\ cause = "interrupt" /\ intAt \in {"got", "handling"})
        => (Handled(cur) \/ cur \in Range(queue))

\* run was interrupted while suspended on an empty queue, g being in trampoline
CancelledWhileIdle ==
    /\ rpc = "except" /\ cause = "interrupt" /\ intAt = "blocked"
    /\ queue = <<>> /\ gpc = "wait"

\* C9 (FairListener): interrupted while suspended on an empty queue with the
\* producer in its readiness wait, run next leaves its loop with the producer
\* killed, no notification having arrived or been dequeued for that; and it does so.
C9_PromptCancellation ==
    /\ [][(CancelledWhileIdle /\ rpc' # rpc)
            => (rpc' = "done" /\ gpc' = "killed" /\ deq' = deq /\ emitted' = emitted)]_vars
    /\ [](CancelledWhileIdle => <>(rpc = "done" /\ gpc = "killed"))

\* the cancelled listener has terminated without any notification at all
C9_Witness ==
    /\ rpc = "done" /\ cause = "interrupt" /\ intAt = "blocked"
    /\ gpc = "killed" /\ emitted = 0 /\ deq = <<>>

\* C10 (SpecListener): when the producer has been stopped in its wait, every
\* notification buffered in the queue or in conn.notifies has been handled.
C10_NoLossOnStop ==
    (rpc = "done" /\ gpc = "killed")
        => \A n \in Range(queue) \cup Range(notifies) : Handled(n)

\* C11 (Spec): put_back_connection(k) for a key that is not checked out does not
\* raise and leaves the pool, Database.conns and the connections as they were.
C11_ReleaseUnknownKey ==
    [][(ev'.op \in {"put", "exit"} /\ ev'.key \notin DOMAIN conns)
        => (/\ ev'.res = "unknown_key"
            /\ pool' = pool /\ conns' = conns /\ status' = status /\ nconn' = nconn /\ tx' = tx
            /\ ev'.op = "put" => unwind' = "none")]_vars

\* a key was released and then released again, on an open pool
C11_Witness ==
    /\ ev.op = "put" /\ ev.res = "unknown_key"
    /\ pool.open /\ unwind = "none"
    /\ ev.key \notin DOMAIN conns
    /\ Range(pool.idle) # {}

\* C13 (Spec): after close_pool there is no pool, and while there is none every
\* get_connection(k) yields the no-pool outcome, hands out no connection and adds no key.
C13_AcquireAfterClose ==
    /\ [](ev.op = "close" => ~pool.open)
    /\ [][(ev'.op \in {"get", "enter"} /\ ~pool.open)
            => (/\ ev'.res = "no_pool" /\ ev'.conn = 0
                /\ pool' = pool /\ conns' = conns /\ status' = status /\ nconn' = nconn /\ tx' = tx)]_vars

\* a get_connection has been refused on a pool that was opened and then closed
C13_Witness ==
    /\ ev.op = "get" /\ ev.res = "no_pool"
    /\ ~pool.open /\ nconn > 0
    /\ ev.key \notin DOMAIN conns

\* all maxconn connections of the open pool are in use under other keys
Exhausted(key) ==
    /\ pool.open
    /\ key \notin DOMAIN conns /\ key \notin DOMAIN pool.used
    /\ pool.idle = <<>>
    /\ Cardinality(DOMAIN pool.used) = pool.maxconn

\* C14 as stated (Spec): no get_connection ends the process.
C14_NotTerminated ==
    ~(ev.op \in {"get", "enter"} /\ ev.res = "exit" /\ unwind = "exit")

\* C14 as amended (Spec): get_connection(k) on an exhausted pool takes nothing and
\* leaves every mapping as it was, and ends in sys.exit(): SystemExit is raised.
C14_ExhaustionExits ==
    [][(ev'.op \in {"get", "enter"} /\ Exhausted(ev'.key))
        => (/\ ev'.res = "exit" /\ unwind' = "exit"
            /\ pool' = pool /\ conns' = conns /\ status' = status /\ nconn' = nconn /\ tx' = tx)]_vars

\* a get_connection has just ended in sys.exit() on an exhausted pool
C14_Witness ==
    /\ ev.op = "get" /\ ev.res = "exit" /\ unwind = "exit"
    /\ Exhausted(ev.key)
    /\ DOMAIN conns # {}

\* C18 (Spec): open_pool on an open pool creates nothing and leaves the pool, its
\* limits, the connections and the key mappings as they were.
C18_OpenIdempotent ==
    [][(ev'.op = "open" /\ pool.open)
        => (/\ ev'.res = "noop"
            /\ pool' = pool /\ conns' = conns /\ status' = status /\ nconn' = nconn /\ tx' = tx)]_vars

\* open_pool was called on an open pool with a key checked out
C18_Witness ==
    /\ ev.op = "open" /\ ev.res = "noop"
    /\ pool.open /\ DOMAIN conns # {}

\* C20 (SpecListener): whenever subscribe is in its readiness wait conn.notifies is
\* empty and every notification taken off the connection is on the queue's record;
\* the wait is entered only from the subscription or from a drain that emptied
\* conn.notifies, and left only for the poll.
C20_DrainBeforeWait ==
    /\ [](gpc = "wait" =>
            /\ notifies = <<>>
            /\ \A n \in 1..emitted : n \in Range(sock) \/ n \in Range(enq))
    /\ [][/\ (gpc # "wait" /\ gpc' = "wait") => (gpc \in {"subscribe", "drain"} /\ notifies = <<>>)
          /\ (gpc = "wait" /\ gpc' # "wait" /\ rpc' # "done") => gpc' = "poll"
          /\ (gpc = "poll" /\ gpc' # "poll") => gpc' \in {"drain", "failed_poll", "interrupted"}]_vars

\* subscribe is back in its wait after draining a batch of several notifications
C20_Witness ==
    /\ gpc = "wait" /\ notifies = <<>>
    /\ Len(enq) >= 2 /\ ~Increasing(enq)

\* C12 (Spec): get_connection(k) followed at once by put_back_connection(k)
\* releases: k is unmapped again, the connection is idle in the pool again and has
\* no open transaction.
C12_RoundTrip ==
    [][(ev.op = "get" /\ ev.res = "acquired" /\ ev'.op = "put" /\ ev'.key = ev.key)
        => (/\ ev'.res = "released"
            /\ ev.key \notin DOMAIN conns'
            /\ ev.conn \in Range(pool'.idle)
            /\ tx'[ev.conn] = "idle")]_vars

\* the last call was a send that the server rejected
StatementFailed == ev.op = "send" /\ sd.err = "statement"

\* the arguments of the last send fit its template, which the server accepts
ValidSend == sd.q.ok /\ sd.args = (IF sd.q.ph = 0 THEN NoArgs ELSE sd.q.ph)

\* C15 (SpecSend): a send that the server rejects is rolled back, not committed,
\* and leaves the key mapped to the same connection, with no transaction on it; a
\* valid send on the same key right after it, if not interrupted, commits.
C15_StatementFailureRecovers ==
    /\ [][(ev'.op = "send" /\ sd'.err = "statement")
            => (/\ ev'.res = "failed"
                /\ sd'.rollbacks = 1 /\ sd'.commits = 0
                /\ conns' = conns /\ conns'[ev'.key] = ev'.conn
                /\ status'[ev'.conn] = "live" /\ tx'[ev'.conn] = "idle")]_vars
    /\ []((ev.op = "send" /\ sd.retry /\ ValidSend /\ sd.err # "interrupt")
            => (/\ ev.res = "ok" /\ sd.sent
                /\ sd.commits = 1 /\ sd.rollbacks = 0
                /\ tx[ev.conn] = "idle"))

\* a valid send has committed right after a rejected one on the same key
C15_Witness ==
    /\ ev.op = "send" /\ sd.retry /\ ValidSend
    /\ ev.res = "ok" /\ sd.commits = 1
    /\ conns[ev.key] = ev.conn

\* C16 (SpecSend): every send on a checked-out key has made exactly one of commit
\* and rollback, the commit if and only if no error was raised, and it has left
\* no open or aborted transaction on the connection.
C16_ImplicitTransaction ==
    (ev.op = "send" /\ ev.conn # 0)
        => (/\ sd.commits + sd.rollbacks = 1
            /\ sd.commits = 1 <=> sd.err = "none"
            /\ status[ev.conn] = "live" => tx[ev.conn] = "idle")

\* C17 (SpecSend): every send that reaches the binding of its parameters either
\* binds exactly the given parameters to all the placeholders of the template, or
\* fails without the statement having been sent to the database.
C17_BindBeforeSend ==
    (ev.op = "send" /\ ev.conn # 0 /\ sd.err \notin {"interrupt", "connection"})
        => (\/ /\ sd.bound = sd.q.ph
               /\ sd.bound = (IF sd.args = NoArgs THEN 0 ELSE sd.args)
            \/ ev.res = "failed" /\ ~sd.sent)

\* C19 (SpecThreads): whenever no call is in progress, every physical connection is
\* either idle in the pool or recorded in Database.conns under exactly one key,
\* never both, never under two.
C19_IdleXorCheckedOut ==
    (\A t \in Threads : tpc[t] = "idle")
        => \A c \in ConnIds :
              LET ks == {k \in DOMAIN conns : conns[k] = c}
              IN  /\ c \in Range(pool.idle) => ks = {}
                  /\ Cardinality(ks) <= 1

\* the values send returns, over all its arguments, when the statement failed
FailureReturns ==
    {r.ret : r \in {o \in {send_try(q, args, cm, fm, "live", "idle", "none", FALSE) :
                             q \in Queries, args \in ArgsValues, cm \in CurMethods,
                             fm \in FetchMethods} : o.res = "failed"}}

\* C21 (SpecSend): the value returned by a send that succeeded is never a value
\* that send returns when the statement failed.
C21_FailureDistinguishable ==
    (ev.op = "send" /\ ev.conn # 0 /\ ev.res = "ok") => sd.ret \notin FailureReturns

\* C22 (Spec): leaving a `with connect(k)` scope whose entry found k already
\* checked out, and so acquired nothing, leaves k mapped and the pool as it was.
C22_ReleaseOnlyAcquired ==
    [][(ev.op = "enter" /\ ev.res = "in_use" /\ ev'.op = "exit" /\ ev'.key = ev.key)
        => (/\ ev.key \in DOMAIN conns'
            /\ conns' = conns /\ pool' = pool)]_vars

\* C23 (Spec): while there is no pool, Database.conns is empty.
C23_NoStaleSessions ==
    ~pool.open => DOMAIN conns = {}

\* C24 (Spec): put_back_connection(k), called directly or at the end of a
\* connect(k) scope, on a key whose connection has lost connectivity unmaps k and
\* takes the connection out of the pool's used set.
C24_ReleaseDeadConnection ==
    [][(/\ ev'.op \in {"put", "exit"}
        /\ pool.open
        /\ ev'.key \in DOMAIN conns
        /\ status[conns[ev'.key]] = "dead")
        => (/\ ev'.key \notin DOMAIN conns'
            /\ ev'.key \notin DOMAIN pool'.used)]_vars

\* C25 (SpecListener): subscribe is in its wait/poll/drain cycle only on a
\* connection on which its LISTEN succeeded.
C25_WaitOnlyIfSubscribed ==
    gpc \in {"wait", "poll", "drain"} => listening

====
